---- MODULE Spec2Model ----
(***************************************************************************)
(* cryptoscanner.py: the metric cache (get_metric_df_cached), the candle   *)
(* client (safe_json, fetch_klines, fetch_all_klines) and the metric       *)
(* engine (compute_metric_df).                                             *)
(*                                                                         *)
(* Three specifications share the variables:                               *)
(*   Spec       threads calling get_metric_df_cached against a clock       *)
(*   SpecFetch  one fetch_all_klines call against an arbitrary upstream    *)
(*   SpecMetric one compute_metric_df cell for arbitrary candle series     *)
(***************************************************************************)
EXTENDS Integers, Sequences, FiniteSets, TLC

\* ------------------------------------------------------------------ bounds
MaxClock == 10          \* time.time() is followed up to this many seconds
NumThreads == 2         \* threads that may be inside get_metric_df_cached
MaxPages == 3           \* fetch windows span up to this many full pages
MaxCandles == 2         \* candle series of the metric engine hold up to this many rows

\* ------------------------------------------------------- program constants
CACHE_TTL == 10

\* the keys the cache is exercised with: two of the five METRICS, which the
\* cache treats alike
CacheKeys == {"price_change", "volume_change"}

Threads == 1..NumThreads
NoThread == 0
NoMetric == "none"
NoTable == -1
Absent == [df |-> NoTable, ts |-> -1]

\* the clock is observed every half TTL
ClockStep == CACHE_TTL \div 2

VARIABLES
    clock,        \* time.time(), whole seconds
    CACHE,        \* metric -> {'df', 'ts'} or Absent; df is named by the now_ms it was computed at
    CACHE_LOCK,   \* the thread holding the lock, or NoThread
    pc,           \* thread -> position inside get_metric_df_cached
    metric,       \* thread -> argument of the call
    now,          \* thread -> local `now`
    df,           \* thread -> local `df`
    \* --- one fetch_all_klines(sym, start, end, interval_sec) call
    start,        \* argument, ms
    end,          \* argument, ms
    interval_sec, \* argument
    cur,          \* local `cur`
    chunk_end,    \* local `chunk_end`
    dfs,          \* local `dfs`: the pages kept, each the timestamps of its rows in row order
    out,          \* the returned series (timestamps in row order)
    fpc,          \* position inside fetch_all_klines
    reqs,         \* the upstream's log: one [start, end, kind] per request received
    \* --- one (symbol, period) cell of compute_metric_df(sym_list, metric)
    mpc,          \* "fetched": the series are in; "done": df.at[s, col] is set
    mmetric,      \* argument `metric`
    kl,           \* current series, rows in time order
    prev_kl,      \* previous-window series (read by volume_change only)
    base,         \* BTCUSDT series (read by correlation only)
    val           \* the value stored in the cell

cacheVars == <<clock, CACHE, CACHE_LOCK, pc, metric, now, df>>
fetchVars == <<start, end, interval_sec, cur, chunk_end, dfs, out, fpc, reqs>>

metricVars == <<mpc, mmetric, kl, prev_kl, base, val>>

vars == <<cacheVars, fetchVars, metricVars>>

\* ------------------------------------------------- get_metric_df_cached
InCache(m) == CACHE[m] # Absent

\* line 47
Fresh(m, n) == InCache(m) /\ (n - CACHE[m].ts < CACHE_TTL)

\* lines 48, 52: return; the frame's locals are gone
Return(t) ==
    /\ pc' = [pc EXCEPT ![t] = "idle"]
    /\ metric' = [metric EXCEPT ![t] = NoMetric]
    /\ now' = [now EXCEPT ![t] = 0]
    /\ df' = [df EXCEPT ![t] = NoTable]

\* line 45: the call starts and reads the clock
Call(t, m) ==
    /\ pc[t] = "idle"
    /\ pc' = [pc EXCEPT ![t] = "acq1"]
    /\ metric' = [metric EXCEPT ![t] = m]
    /\ now' = [now EXCEPT ![t] = clock]
    /\ UNCHANGED <<clock, CACHE, CACHE_LOCK, df>>
    /\ UNCHANGED <<fetchVars, metricVars>>

\* line 46: with CACHE_LOCK (enter)
Acquire1(t) ==
    /\ pc[t] = "acq1"
    /\ CACHE_LOCK = NoThread
    /\ CACHE_LOCK' = t
    /\ pc' = [pc EXCEPT ![t] = "check"]
    /\ UNCHANGED <<clock, CACHE, metric, now, df>>
    /\ UNCHANGED <<fetchVars, metricVars>>

\* lines 47-48: fresh entry, return it (the with block releases the lock)
Hit(t) ==
    /\ pc[t] = "check"
    /\ Fresh(metric[t], now[t])
    /\ CACHE_LOCK' = NoThread
    /\ Return(t)
    /\ UNCHANGED <<clock, CACHE>>
    /\ UNCHANGED <<fetchVars, metricVars>>

\* Miss with compute_metric_df called inside the with block
MissHoldingLock(t) ==
    /\ pc[t] = "check"
    /\ ~Fresh(metric[t], now[t])
    /\ df' = [df EXCEPT ![t] = clock]
    /\ pc' = [pc EXCEPT ![t] = "compute"]
    /\ UNCHANGED <<clock, CACHE, CACHE_LOCK, metric, now>>
    /\ UNCHANGED <<fetchVars, metricVars>>

\* line 47 false: leave the with block, enter compute_metric_df (line 97 reads now_ms)
Miss(t) ==
    /\ pc[t] = "check"
    /\ ~Fresh(metric[t], now[t])
    /\ CACHE_LOCK' = NoThread
    /\ df' = [df EXCEPT ![t] = clock]
    /\ pc' = [pc EXCEPT ![t] = "compute"]
    /\ UNCHANGED <<clock, CACHE, metric, now>>
    /\ UNCHANGED <<fetchVars, metricVars>>

\* line 49: compute_metric_df returns
Compute(t) ==
    /\ pc[t] = "compute"
    /\ pc' = [pc EXCEPT ![t] = "acq2"]
    /\ UNCHANGED <<clock, CACHE, CACHE_LOCK, metric, now, df>>
    /\ UNCHANGED <<fetchVars, metricVars>>

\* line 50: with CACHE_LOCK (enter)
Acquire2(t) ==
    /\ pc[t] = "acq2"
    /\ CACHE_LOCK = NoThread
    /\ CACHE_LOCK' = t
    /\ pc' = [pc EXCEPT ![t] = "store"]
    /\ UNCHANGED <<clock, CACHE, metric, now, df>>
    /\ UNCHANGED <<fetchVars, metricVars>>

\* lines 51-52: store {'df': df, 'ts': now}, release, return df
Store(t) ==
    /\ pc[t] = "store"
    /\ CACHE' = [CACHE EXCEPT ![metric[t]] = [df |-> df[t], ts |-> now[t]]]
    /\ CACHE_LOCK' = NoThread
    /\ Return(t)
    /\ UNCHANGED clock
    /\ UNCHANGED <<fetchVars, metricVars>>

\* time passes
Tick ==
    /\ clock + ClockStep <= MaxClock
    /\ clock' = clock + ClockStep
    /\ UNCHANGED <<CACHE, CACHE_LOCK, pc, metric, now, df>>
    /\ UNCHANGED <<fetchVars, metricVars>>

InitCache ==
    /\ clock = 0
    /\ CACHE = [m \in CacheKeys |-> Absent]
    /\ CACHE_LOCK = NoThread
    /\ pc = [t \in Threads |-> "idle"]
    /\ metric = [t \in Threads |-> NoMetric]
    /\ now = [t \in Threads |-> 0]
    /\ df = [t \in Threads |-> NoTable]

NextCache ==
    \/ \E t \in Threads, m \in CacheKeys : Call(t, m)
    \/ \E t \in Threads : Acquire1(t)
    \/ \E t \in Threads : Hit(t)
    \/ \E t \in Threads : Miss(t)
    \/ \E t \in Threads : Compute(t)
    \/ \E t \in Threads : Acquire2(t)
    \/ \E t \in Threads : Store(t)
    \/ Tick

\* ------------------------------------------------------------ the upstream
\* 'limit': 200 of the kline request
PageLimit == 200
\* the 200 of `cur + 200 * interval_sec * 1000`
ChunkCandles == 200

\* arguments of the modelled calls: candle intervals in seconds, window
\* starts in ms (on and off the candle grid), window lengths in candles
\* (1 and 12 are the 1h and 12h PERIODS at INTERVAL 1h; then whole pages)
Intervals == {1, 60}
Starts == {0, 500}
Spans == {1, 12} \cup {k * ChunkCandles : k \in 1..MaxPages}

Min(a, b) == IF a < b THEN a ELSE b
Max(a, b) == IF a > b THEN a ELSE b

\* candles sit on the grid of multiples of the interval
GridUp(x, g) == ((x + g - 1) \div g) * g
GridDown(x, g) == (x \div g) * g

Asc(lo, n, g) == [i \in 1..n |-> lo + (i - 1) * g]
Desc(lo, n, g) == [i \in 1..n |-> lo + (n - i) * g]

\* the newest PageLimit candles with lo <= ts <= hi
Newest(lo, hi, g) ==
    IF hi < lo THEN [lo |-> lo, n |-> 0]
    ELSE LET n == Min((hi - lo) \div g + 1, PageLimit)
         IN  [lo |-> hi - (n - 1) * g, n |-> n]

\* what an upstream may answer to start=s, end=e with intact rows:
\*   window     the candles of [s, e)
\*   inclusive  the candles of [s, e]
\*   ahead      a full page of candles after e (the end is ignored)
\*   stale      the one candle at or before s (the start is ignored)
Shapes == {"window", "inclusive", "ahead", "stale"}
Orders == {"asc", "desc"}

Candles(shape, s, e, g) ==
    CASE shape = "window"    -> Newest(GridUp(s, g), GridDown(e - 1, g), g)
      [] shape = "inclusive" -> Newest(GridUp(s, g), GridDown(e, g), g)
      [] shape = "ahead"     -> [lo |-> GridDown(e, g) + g, n |-> PageLimit]
      [] shape = "stale"     -> [lo |-> GridDown(s, g), n |-> 1]

Rows(shape, order, s, e, g) ==
    LET c == Candles(shape, s, e, g)
    IN  IF order = "asc" THEN Asc(c.lo, c.n, g) ELSE Desc(c.lo, c.n, g)

\* the outcomes of one kline request
FailKinds == {"transport_error", "not_json", "json_not_object",
              "result_missing", "result_null", "result_not_object",
              "list_missing", "list_null", "list_empty", "list_not_rows",
              "rows_not_7", "rows_bad_ts"}

Responses ==
    {[kind |-> k, shape |-> "window", order |-> "asc"] : k \in FailKinds}
    \cup {[kind |-> "rows", shape |-> sh, order |-> o] : sh \in Shapes, o \in Orders}

\* ---------------------------------------------------------------- safe_json
\* requests.get(...).json(): a transport error raises ConnectionError or
\* Timeout, which is neither JSONDecodeError nor ValueError and passes through
\* the except clause; a body that is not JSON is caught and becomes {}
safe_json(r) ==
    CASE r.kind = "transport_error" -> [raised |-> TRUE, json |-> "none", result |-> "none", list |-> "none"]
      [] r.kind = "not_json"        -> [raised |-> FALSE, json |-> "object", result |-> "missing", list |-> "missing"]
      [] r.kind = "json_not_object" -> [raised |-> FALSE, json |-> "array", result |-> "none", list |-> "none"]
      [] r.kind = "result_missing"  -> [raised |-> FALSE, json |-> "object", result |-> "missing", list |-> "missing"]
      [] r.kind = "result_null"     -> [raised |-> FALSE, json |-> "object", result |-> "null", list |-> "none"]
      [] r.kind = "result_not_object" -> [raised |-> FALSE, json |-> "object", result |-> "array", list |-> "none"]
      [] r.kind = "list_missing"    -> [raised |-> FALSE, json |-> "object", result |-> "object", list |-> "missing"]
      [] r.kind = "list_null"       -> [raised |-> FALSE, json |-> "object", result |-> "object", list |-> "null"]
      [] r.kind = "list_empty"      -> [raised |-> FALSE, json |-> "object", result |-> "object", list |-> "empty"]
      [] r.kind = "list_not_rows"   -> [raised |-> FALSE, json |-> "object", result |-> "object", list |-> "string"]
      [] OTHER                      -> [raised |-> FALSE, json |-> "object", result |-> "object", list |-> "rows"]

\* line 60: data.get('result', {}).get('list', []); .get exists on a dict only
RawList(data) ==
    IF data.json # "object" THEN "AttributeError"
    ELSE IF data.result = "missing" THEN "empty"
    ELSE IF data.result # "object" THEN "AttributeError"
    ELSE IF data.list = "missing" THEN "empty"
    ELSE data.list

Raise == [status |-> "raise", index |-> <<>>, nat |-> FALSE]
EmptyFrame == [status |-> "empty", index |-> <<>>, nat |-> FALSE]

\* fetch_klines(sym, start, end) under upstream outcome r; s, e are the
\* request's start and end, g the candle interval in ms
fetch_klines(r, s, e, g) ==
    LET data == safe_json(r)
    IN  IF data.raised THEN Raise
        ELSE LET raw == RawList(data)
             IN  IF raw = "AttributeError" THEN Raise
                 ELSE IF raw \in {"empty", "null"} THEN EmptyFrame   \* not raw
                 ELSE IF raw = "string" THEN Raise             \* DataFrame(raw, columns=...)
                 ELSE IF r.kind = "rows_not_7" THEN Raise       \* 7 columns passed
                 ELSE LET rows == Rows(r.shape, r.order, s, e, g)
                      IN  IF rows = <<>> THEN EmptyFrame
                          ELSE [status |-> "frame", index |-> rows,
                                nat |-> (r.kind = "rows_bad_ts")]

\* ---------------------------------------------------------- fetch_all_klines
\* line 74
ChunkEnd(c, e, isec) == Min(c + ChunkCandles * isec * 1000, e)

\* line 79: the last row's timestamp plus one interval (candle timestamps are
\* whole seconds, for which timestamp() * 1000 is exact)
NextCur(index, isec) == index[Len(index)] + isec * 1000

\* the break with the test dropped
NeverBreak(c, ce) == FALSE

\* line 80
ShouldBreak(c, ce) == c <= ce

RECURSIVE ConcatAll(_)
ConcatAll(pages) ==
    IF pages = <<>> THEN <<>> ELSE Head(pages) \o ConcatAll(Tail(pages))

\* sort_index()
SortIndex(s) == SortSeq(s, LAMBDA a, b : a < b)

\* ~index.duplicated(keep='first') on a sorted index: rows lo..hi of s
\* without those that repeat the row before them
RECURSIVE DropDuplicated(_, _, _)
DropDuplicated(s, lo, hi) ==
    IF lo > hi THEN <<>>
    ELSE IF lo = hi
         THEN IF lo > 1 /\ s[lo] = s[lo - 1] THEN <<>> ELSE <<s[lo]>>
         ELSE LET mid == (lo + hi) \div 2
              IN  DropDuplicated(s, lo, mid) \o DropDuplicated(s, mid + 1, hi)

\* lines 82-86
Result(pages) ==
    IF pages # <<>> THEN LET sorted == SortIndex(ConcatAll(pages))
         IN  DropDuplicated(sorted, 1, Len(sorted))
    ELSE <<>>

\* line 73 true, line 74
LoopEnter ==
    /\ fpc = "loop"
    /\ cur < end
    /\ chunk_end' = ChunkEnd(cur, end, interval_sec)
    /\ fpc' = "fetch"
    /\ UNCHANGED <<start, end, interval_sec, cur, dfs, out, reqs>>
    /\ UNCHANGED <<cacheVars, metricVars>>

\* line 73 false
LoopExit ==
    /\ fpc = "loop"
    /\ ~(cur < end)
    /\ fpc' = "concat"
    /\ UNCHANGED <<start, end, interval_sec, cur, chunk_end, dfs, out, reqs>>
    /\ UNCHANGED <<cacheVars, metricVars>>

\* lines 75-81 under upstream outcome r
Request(r) ==
    /\ fpc = "fetch"
    /\ reqs' = Append(reqs, [start |-> cur, end |-> chunk_end, kind |-> r.kind,
                             shape |-> r.shape])
    /\ LET page == fetch_klines(r, cur, chunk_end, interval_sec * 1000)
       IN  CASE page.status = "raise" ->
                  /\ fpc' = "raised"
                  /\ UNCHANGED <<cur, dfs>>
             [] page.status = "empty" ->
                  /\ fpc' = "concat"
                  /\ UNCHANGED <<cur, dfs>>
             [] page.status = "frame" /\ page.nat ->      \* NaT.timestamp() raises
                  /\ dfs' = Append(dfs, page.index)
                  /\ fpc' = "raised"
                  /\ UNCHANGED cur
             [] OTHER ->
                  /\ dfs' = Append(dfs, page.index)
                  /\ cur' = NextCur(page.index, interval_sec)
                  /\ fpc' = IF ShouldBreak(cur', chunk_end) THEN "concat" ELSE "loop"
    /\ UNCHANGED <<start, end, interval_sec, chunk_end, out>>
    /\ UNCHANGED <<cacheVars, metricVars>>

\* lines 82-86
Concat ==
    /\ fpc = "concat"
    /\ out' = Result(dfs)
    /\ fpc' = "done"
    /\ UNCHANGED <<start, end, interval_sec, cur, chunk_end, dfs, reqs>>
    /\ UNCHANGED <<cacheVars, metricVars>>

\* lines 71-72 for the arguments s, e, isec
FetchCalled(s, e, isec) ==
    /\ start = s
    /\ end = e
    /\ interval_sec = isec
    /\ cur = s
    /\ chunk_end = 0
    /\ dfs = <<>>
    /\ out = <<>>
    /\ fpc = "loop"
    /\ reqs = <<>>

FetchIdle ==
    /\ start = 0
    /\ end = 0
    /\ interval_sec = 0
    /\ cur = 0
    /\ chunk_end = 0
    /\ dfs = <<>>
    /\ out = <<>>
    /\ fpc = "idle"
    /\ reqs = <<>>

NextFetch ==
    \/ LoopEnter
    \/ LoopExit
    \/ \E r \in Responses : Request(r)
    \/ Concat

\* -------------------------------------------------------- compute_metric_df
\* line 125; the cell logic tells all five apart
METRICS == {"price_change", "price_range", "volume_change", "correlation",
               "funding_rate"}

Candle(o, h, l, c, v) == [open |-> o, high |-> h, low |-> l, close |-> c, volume |-> v]

\* the rows a series is drawn from: two ordinary candles, a candle whose low
\* and volume are zero, and an all-zero candle
CandleRows == {Candle(100, 120, 90, 110, 5), Candle(110, 130, 100, 121, 10),
               Candle(50, 60, 0, 55, 0), Candle(0, 0, 0, 0, 0)}

\* the series fetch_all_klines may return; <<>> is the empty DataFrame, which
\* has no columns
Series == UNION {[1..n -> CandleRows] : n \in 0..MaxCandles}

\* a cell: None, or the float num / den * 100; a numpy division by zero
\* yields inf (nan for 0 / 0) and does not raise
Null == [tag |-> "null", num |-> 0, den |-> 0]
Corr == [tag |-> "corr", num |-> 0, den |-> 0]

Pct(n, d) ==
    IF d # 0 THEN [tag |-> "num", num |-> n, den |-> d]
    ELSE [tag |-> IF n = 0 THEN "nan" ELSE "inf", num |-> n, den |-> 0]

RECURSIVE SumVolume(_)
SumVolume(s) == IF s = <<>> THEN 0 ELSE s[1].volume + SumVolume(Tail(s))

RECURSIVE MaxHigh(_)
MaxHigh(s) == IF Len(s) = 1 THEN s[1].high ELSE Max(s[1].high, MaxHigh(Tail(s)))

RECURSIVE MinLow(_)
MinLow(s) == IF Len(s) = 1 THEN s[1].low ELSE Min(s[1].low, MinLow(Tail(s)))

\* line 105
InitialVal == Null

\* lines 106-107
PriceChange(s) ==
    IF Len(s) > 1
    THEN Pct(s[Len(s)].close - s[1].close, s[1].close)
    ELSE InitialVal

\* lines 108-109
PriceRange(s) ==
    IF s # <<>>
    THEN Pct(MaxHigh(s) - MinLow(s), MinLow(s))
    ELSE InitialVal

\* lines 110-115
VolumeChange(s, p) ==
    LET c == SumVolume(s)
        prev == SumVolume(p)
    IN  IF prev # 0 THEN Pct(c - prev, prev) ELSE InitialVal

\* lines 116-119; the coefficient pandas returns is left symbolic
Correlation(s, b) ==
    IF Len(s) > 1 /\ Len(b) > 1 THEN Corr ELSE InitialVal

Stored(v) ==
    /\ val' = v
    /\ mpc' = "done"
    /\ UNCHANGED <<mmetric, kl>>
    /\ UNCHANGED <<cacheVars, fetchVars>>

CellPriceChange ==
    /\ mpc = "fetched"
    /\ mmetric = "price_change"
    /\ Stored(PriceChange(kl))
    /\ UNCHANGED <<prev_kl, base>>

CellPriceRange ==
    /\ mpc = "fetched"
    /\ mmetric = "price_range"
    /\ Stored(PriceRange(kl))
    /\ UNCHANGED <<prev_kl, base>>

\* line 112 fetches the previous window, whatever kl is
CellVolumeChange(p) ==
    /\ mpc = "fetched"
    /\ mmetric = "volume_change"
    /\ prev_kl' = p
    /\ Stored(VolumeChange(kl, p))
    /\ UNCHANGED base

\* line 117 fetches BTCUSDT only when kl has more than one close
CellCorrelation(b) ==
    /\ mpc = "fetched"
    /\ mmetric = "correlation"
    /\ base' = IF Len(kl) > 1 THEN b ELSE <<>>
    /\ Stored(Correlation(kl, base'))
    /\ UNCHANGED prev_kl

\* no branch of lines 106-119 is for funding_rate: the period cells stay None
CellFundingRate ==
    /\ mpc = "fetched"
    /\ mmetric = "funding_rate"
    /\ Stored(InitialVal)
    /\ UNCHANGED <<prev_kl, base>>

\* line 104 has returned s for a cell of metric m
CellFetched(m, s) ==
    /\ mpc = "fetched"
    /\ mmetric = m
    /\ kl = s
    /\ prev_kl = <<>>
    /\ base = <<>>
    /\ val = Null

MetricIdle ==
    /\ mpc = "idle"
    /\ mmetric = NoMetric
    /\ kl = <<>>
    /\ prev_kl = <<>>
    /\ base = <<>>
    /\ val = Null

NextMetric ==
    \/ CellPriceChange
    \/ CellPriceRange
    \/ \E p \in Series : CellVolumeChange(p)
    \/ \E b \in Series : CellCorrelation(b)
    \/ CellFundingRate

\* ------------------------------------------------------------ specifications
Init == InitCache /\ FetchIdle /\ MetricIdle

Next == NextCache

Spec == Init /\ [][Next]_vars

InitFetch ==
    /\ InitCache
    /\ MetricIdle
    /\ \E s \in Starts, n \in Spans, isec \in Intervals :
           FetchCalled(s, s + n * isec * 1000, isec)

SpecFetch == InitFetch /\ [][NextFetch]_vars

InitMetric ==
    /\ InitCache
    /\ FetchIdle
    /\ \E m \in METRICS, s \in Series : CellFetched(m, s)

SpecMetric == InitMetric /\ [][NextMetric]_vars

\* ---------------------------------------------------------- cache claims
Computing(m) == {t \in Threads : pc[t] = "compute" /\ metric[t] = m}

\* C1: for every metric at most one compute_metric_df computation is in
\* flight at any time.
C1_AtMostOneInFlight == \A m \in CacheKeys : Cardinality(Computing(m)) <= 1

\* C2: once a call has completed a recomputation (Store), a read of that
\* metric made less than CACHE_TTL later is served from the cache; in
\* particular a read made at the very moment the store completes is.
C2_FreshAfterRecompute ==
    [][\A t \in Threads, m \in CacheKeys :
          (Store(t) /\ metric[t] = m) =>
              (CACHE'[m] # Absent /\ clock' - CACHE'[m].ts < CACHE_TTL)]_vars

\* C8 as stated: whenever some call is executing the computation the lock
\* is free.
C8_LockFreeWhileComputing ==
    (\E t \in Threads : pc[t] = "compute") => CACHE_LOCK = NoThread

\* C8 amended: the lock is held exactly by a call that is at the check
\* (lines 47-48) or at the store (line 51); a call executing the computation
\* never holds it.
C8_LockOnlyAroundCache ==
    \A t \in Threads : (CACHE_LOCK = t) <=> (pc[t] \in {"check", "store"})

\* a reader holds the lock for its check while another call is computing
C8_Witness ==
    \E t, u \in Threads :
        /\ t # u
        /\ pc[t] = "compute"
        /\ pc[u] = "check"
        /\ CACHE_LOCK = u

\* C10: the stored timestamp never decreases, an entry is never replaced by
\* the result of a computation that started earlier, an entry is never
\* removed, and a call for one metric leaves the other entries unchanged.
C10_EntriesOnlyAdvance ==
    [][\A m \in CacheKeys :
          /\ InCache(m) =>
                /\ CACHE'[m] # Absent
                /\ CACHE'[m].ts >= CACHE[m].ts
                /\ CACHE'[m].df >= CACHE[m].df
          /\ \A t \in Threads :
                (Store(t) /\ metric[t] # m) => CACHE'[m] = CACHE[m]]_vars

\* ---------------------------------------------------------- fetch claims
\* C3: fetch_klines / fetch_all_klines never raise, whatever the upstream
\* answers.
C3_NeverRaises == fpc # "raised"

StrictlyIncreasing(s) == \A i \in 1..(Len(s) - 1) : s[i] < s[i + 1]

ThreePages == 3 * ChunkCandles

\* the window spans three full pages and every request was answered with the
\* candles of its sub-window
ThreePageScenario ==
    /\ end - start = ThreePages * interval_sec * 1000
    /\ \A i \in 1..Len(reqs) : reqs[i].kind = "rows" /\ reqs[i].shape = "window"

\* C4: over a window of three full pages served page by page,
\* fetch_all_klines makes three requests, each starting past the last
\* timestamp received, and returns 600 candles with strictly increasing
\* timestamps.
C4_ThreePagesConcatenated ==
    (fpc = "done" /\ ThreePageScenario) =>
        /\ Len(reqs) = 3
        /\ Len(out) = ThreePages
        /\ StrictlyIncreasing(out)

CeilDiv(a, b) == (a + b - 1) \div b

PageBound == CeilDiv(end - start, ChunkCandles * interval_sec * 1000)

\* C9: the pagination loop terminates for every upstream and every
\* start < end: every iteration makes one request and at most
\* ceil((end - start) / (200 * interval)) requests are ever made, an
\* iteration that does not break leaves the cursor strictly beyond the chunk
\* end just requested, and successive request windows never overlap.
C9_PaginationTerminates ==
    /\ Len(reqs) <= PageBound
    /\ \A i \in 1..(Len(reqs) - 1) : reqs[i + 1].start > reqs[i].end
    /\ (fpc = "loop" /\ reqs # <<>>) => cur > reqs[Len(reqs)].end
    /\ (fpc = "fetch") => (Len(reqs) < PageBound /\ cur < chunk_end)

\* a call that needed every request the bound allows, over several pages
C9_Witness ==
    /\ fpc = "done"
    /\ Len(reqs) = PageBound
    /\ Len(reqs) >= 3

\* --------------------------------------------------------- metric claims
\* C5: price_change is (close of the last candle - open of the first) /
\* open of the first * 100 whenever the series has a candle and a non-zero
\* opening price, a single candle included, and is null otherwise.
C5_PriceChangeFormula ==
    (mpc = "done" /\ mmetric = "price_change") =>
        IF kl # <<>> /\ kl[1].open # 0
        THEN /\ val.tag = "num"
             /\ val.num * kl[1].open = (kl[Len(kl)].close - kl[1].open) * val.den
        ELSE val = Null

\* C6: for every metric, a cell whose fetched candle data is empty is null.
C6_EmptyDataIsNull == (mpc = "done" /\ kl = <<>>) => val = Null

ZeroDenominator ==
    \/ mmetric = "price_change" /\ kl # <<>> /\ kl[1].close = 0
    \/ mmetric = "price_range" /\ kl # <<>> /\ MinLow(kl) = 0
    \/ mmetric = "volume_change" /\ SumVolume(prev_kl) = 0

\* C7: for price_change, price_range and volume_change a zero denominator
\* yields a null cell, never infinity, NaN or zero.
C7_ZeroDenominatorIsNull == (mpc = "done" /\ ZeroDenominator) => val = Null

====
